---- MODULE Spec2Model ----
(***************************************************************************)
(* Smart-home backend (src/main.py): the device store, the Seen-Device     *)
(* Set, the interval ledger and the Prometheus series, driven by the HTTP  *)
(* handlers and by the MQTT on_message callback.                           *)
(*                                                                         *)
(* Encoding.  A JSON object (a Python dict) is a sequence of <<key, value>>*)
(* pairs in insertion order.  Top-level scalar fields (id, type, room,     *)
(* name, status) are strings; "parameters" is an object whose values are   *)
(* tagged: <<"bool", 0|1>>, <<"num", n>>, <<"str", s>>.  None (no document *)
(* found) is the empty object <<>>.  A Prometheus series is a tuple of     *)
(* strings <<metric name, label values...>> mapped to its value.  An       *)
(* interval is <<start>> while open (end None) and <<start, end>> closed.  *)
(***************************************************************************)
EXTENDS Integers, Sequences, FiniteSets, TLC

VARIABLES
    devices_collection,   \* the persisted store: documents in insertion order
    seen_devices,         \* main.py:99
    device_on_intervals,  \* main.py:98, id -> sequence of intervals
    metrics,              \* every labelled Gauge/Counter child, main.py:53-95
    now,                  \* the clock read by datetime.now(UTC)
    evt,                  \* the last command handled and its outcome
    pc,                   \* per thread: the step its handler is at
    loc                   \* per thread: the handler's local variables

vars == <<devices_collection, seen_devices, device_on_intervals, metrics, now, evt, pc, loc>>

-----------------------------------------------------------------------------
(* Bounds of the model *)

MaxTime == 3
MaxLag == 1
MaxIntervals == 2
MaxUsage == 4

-----------------------------------------------------------------------------
(* Python dicts as ordered association lists *)

Keys(obj) == {obj[i][1] : i \in DOMAIN obj}

Has(obj, k) == k \in Keys(obj)

Get(obj, k) == obj[CHOOSE i \in DOMAIN obj : obj[i][1] = k][2]

Put(obj, k, v) ==
    IF Has(obj, k)
    THEN [i \in DOMAIN obj |-> IF obj[i][1] = k THEN <<k, v>> ELSE obj[i]]
    ELSE Append(obj, <<k, v>>)

Pop(obj, k) == SelectSeq(obj, LAMBDA e : e[1] # k)

\* dict.update / Mongo "$set" of every pair of upd, in order
RECURSIVE PutAll(_, _)
PutAll(obj, upd) ==
    IF upd = <<>> THEN obj
    ELSE PutAll(Put(obj, Head(upd)[1], Head(upd)[2]), Tail(upd))

None == <<>>

-----------------------------------------------------------------------------
(* Tagged parameter values and Python's conversions of them *)

VBool(b) == <<"bool", IF b THEN 1 ELSE 0>>
VNum(n) == <<"num", n>>
VStr(s) == <<"str", s>>
VNone == <<"null", 0>>

\* str(value), as prometheus_client applies to every label value
PyStr(v) ==
    CASE v[1] = "bool" -> (IF v[2] = 1 THEN "True" ELSE "False")
      [] v[1] = "num" -> ToString(v[2])
      [] v[1] = "str" -> v[2]
      [] OTHER -> "None"

\* the strings float() parses; every other string raises ValueError
NumericStrings == {"50"}

StrFloat(s) == CASE s = "50" -> 50 [] OTHER -> 0

\* float(value) inside Gauge.set: bool is an int subclass, a string is
\* parsed, None raises TypeError
FloatOk(v) ==
    \/ v[1] \in {"bool", "num"}
    \/ v[1] = "str" /\ v[2] \in NumericStrings

FloatOf(v) == IF v[1] = "str" THEN StrFloat(v[2]) ELSE v[2]

\* int("0x" + value[1:], 16) on the colour strings of the model
HexStrings == {"#0000ff", "x0000ff"}

HexOf(s) == CASE s \in HexStrings -> 255 [] OTHER -> 0

-----------------------------------------------------------------------------
(* The world a handler runs in: the shared state plus the handler's        *)
(* transient outcome.  raised: an uncaught exception is propagating;       *)
(* ret: the success flag of the last (bool, reason) result; pub: the       *)
(* messages this handler has published; resp: the HTTP status returned (0: *)
(* none); body: the JSON body of an analytics response; queried: the      *)
(* handler has sent its queries to the metrics backend; lag: the time that passes between the two datetime.now(UTC)      *)
(* reads at main.py:141 and :142.                                          *)

World(lag) ==
    [devices_collection |-> devices_collection,
     seen_devices |-> seen_devices,
     device_on_intervals |-> device_on_intervals,
     metrics |-> metrics,
     now |-> now,
     lag |-> lag,
     raised |-> FALSE,
     ret |-> TRUE,
     resp |-> 0,
     body |-> <<>>,
     queried |-> FALSE,
     pub |-> <<>>]

Then(w, F(_)) == IF w.raised THEN w ELSE F(w)

Raise(w) == [w EXCEPT !.raised = TRUE]

-----------------------------------------------------------------------------
(* prometheus_client: children are created by labels() with value 0 *)

Labels(w, series) ==
    IF series \in DOMAIN w.metrics THEN w
    ELSE [w EXCEPT !.metrics = (series :> 0) @@ @]

GaugeSetNum(w, series, n) ==
    [w EXCEPT !.metrics = [k \in DOMAIN @ \cup {series} |-> IF k = series THEN n ELSE @[k]]]

\* metric.labels(...).set(value): the child exists before float(value) can raise
GaugeSet(w, series, v) ==
    IF FloatOk(v) THEN GaugeSetNum(w, series, FloatOf(v))
    ELSE Raise(Labels(w, series))

CounterInc(w, series, n) ==
    LET w1 == Labels(w, series)
    IN  [w1 EXCEPT !.metrics[series] = @ + n]

Value(m, series) == IF series \in DOMAIN m THEN m[series] ELSE 0

-----------------------------------------------------------------------------
(* Interval ledger: update_binary_device_status, main.py:115-151 *)

KnownStates == {"on", "off", "locked", "unlocked", "open", "closed"}

\* main.py:131
ShouldOpenInterval(w, device, new_status) ==
    /\ new_status = "on"
    /\ \/ Get(device, "id") \notin w.seen_devices
       \/ Get(device, "status") = "off"

\* main.py:137
ShouldCloseInterval(w, device, new_status) ==
    new_status = "off" /\ Get(device, "status") = "on"

\* main.py:134 never taken
NeverCountsAsOnEvent(w, device) == FALSE

\* main.py:134 always taken
AlwaysCountsAsOnEvent(w, device) == TRUE

\* main.py:134
CountsAsOnEvent(w, device) == Get(device, "id") \in w.seen_devices

IntervalsOf(ledger, id) == IF id \in DOMAIN ledger THEN ledger[id] ELSE <<>>

\* main.py:132-135: setdefault(id, []).append([now, None]), then the on-event
OpenInterval(w, device) ==
    LET id == Get(device, "id")
        w1 == [w EXCEPT !.device_on_intervals =
                  (id :> Append(IntervalsOf(@, id), <<w.now>>)) @@ @]
    IN  IF CountsAsOnEvent(w1, device)
        THEN CounterInc(w1, <<"device_on_events_total", id, Get(device, "type")>>, 1)
        ELSE w1

\* main.py:138-146: the last interval's end is overwritten with now, whether or
\* not it was open; the duration is taken from a second, later clock read.
\* A device without any ledger entry raises KeyError.
CloseInterval(w, device) ==
    LET id == Get(device, "id")
    IN  IF id \notin DOMAIN w.device_on_intervals THEN Raise(w)
        ELSE LET ivs == w.device_on_intervals[id]
                 last_on_time == ivs[Len(ivs)][1]
                 closed == [ivs EXCEPT ![Len(ivs)] = <<last_on_time, w.now>>]
                 later == w.now + w.lag
                 w1 == [w EXCEPT !.device_on_intervals[id] = closed, !.now = later]
             IN  CounterInc(w1, <<"device_usage_seconds_total", id, Get(device, "type")>>,
                            later - last_on_time)

ActiveStates == {"on", "locked", "closed"}

\* main.py:148-151
SetStatusGauge(w, device, new_status) ==
    GaugeSetNum(w, <<"device_status", Get(device, "id"), Get(device, "type")>>,
                IF new_status \in ActiveStates THEN 1 ELSE 0)

update_binary_device_status(w, device, new_status) ==
    IF new_status \notin KnownStates THEN w
    ELSE LET w1 == IF ShouldOpenInterval(w, device, new_status)
                   THEN OpenInterval(w, device) ELSE w
             w2 == IF ShouldCloseInterval(w1, device, new_status)
                   THEN CloseInterval(w1, device) ELSE w1
         IN  Then(w2, LAMBDA x : SetStatusGauge(x, device, new_status))

\* main.py:154-162 without the tests of lines 157 and 160
FirstInterval(ivs, check_time) == IF ivs = <<>> THEN None ELSE Head(ivs)

\* main.py:154-162: the first open interval, or the first closed one covering
\* check_time, in ledger order
RECURSIVE FirstCovering(_, _)
FirstCovering(ivs, check_time) ==
    IF ivs = <<>> THEN None
    ELSE LET iv == Head(ivs)
         IN  IF Len(iv) = 1 THEN iv
             ELSE IF iv[1] <= check_time /\ check_time <= iv[2] THEN iv
             ELSE FirstCovering(Tail(ivs), check_time)

get_device_on_interval_at_time(ledger, device_id, check_time) ==
    FirstCovering(IntervalsOf(ledger, device_id), check_time)

-----------------------------------------------------------------------------
(* Metrics projection *)

\* main.py:165-178 without the second write (lines 171-174)
FlipWithoutClearing(w, metric, device_id, new_value) ==
    IF new_value[1] = "bool"
    THEN [GaugeSetNum(w, <<metric, device_id, PyStr(new_value)>>, 1) EXCEPT !.ret = TRUE]
    ELSE [w EXCEPT !.ret = FALSE]

\* main.py:165-178; the result flag is w.ret
flip_device_boolean_flag(w, metric, device_id, new_value) ==
    IF new_value[1] = "bool"
    THEN LET w1 == GaugeSetNum(w, <<metric, device_id, PyStr(new_value)>>, 1)
             w2 == GaugeSetNum(w1, <<metric, device_id, PyStr(VBool(new_value[2] = 0))>>, 0)
         IN  [w2 EXCEPT !.ret = TRUE]
    ELSE [w EXCEPT !.ret = FALSE]

Fail(w) == [w EXCEPT !.ret = FALSE]

Succeed(w) == IF w.raised THEN w ELSE [w EXCEPT !.ret = TRUE]

Params(device) == Get(device, "parameters")

\* only the selected category is written, the others are left as they were
SetSelectedCategory(w, metric, device_id, modes, value, labelled_by_value) ==
    GaugeSetNum(w, <<metric, device_id, PyStr(value)>>, 1)

\* main.py:366-370, :373-377, :380-384: one gauge write per category, in order
RECURSIVE SetCategories(_, _, _, _, _, _)
SetCategories(w, metric, device_id, modes, value, labelled_by_value) ==
    IF modes = <<>> THEN w
    ELSE LET mode == Head(modes)
             label == IF labelled_by_value THEN PyStr(value) ELSE mode
             w1 == GaugeSetNum(w, <<metric, device_id, label>>,
                               IF VStr(mode) = value THEN 1 ELSE 0)
         IN  SetCategories(w1, metric, device_id, Tail(modes), value, labelled_by_value)

\* main.py:296-336
WaterHeaterAction(w, device, key, value) ==
    LET id == Get(device, "id")
    IN  CASE key = "temperature" ->
               Succeed(GaugeSet(w, <<"water_heater_temperature", id>>, value))
          [] key = "target_temperature" ->
               Succeed(GaugeSet(w, <<"water_heater_target_temperature", id>>, value))
          [] key = "is_heating" ->
               flip_device_boolean_flag(w, "water_heater_is_heating_status", id, value)
          [] key = "timer_enabled" ->
               flip_device_boolean_flag(w, "water_heater_timer_enabled_status", id, value)
          [] key = "scheduled_on" ->
               IF ~Has(Params(device), "scheduled_off") THEN Raise(w)
               ELSE Succeed(GaugeSetNum(w, <<"water_heater_schedule_info", id, PyStr(value),
                                             PyStr(Get(Params(device), "scheduled_off"))>>, 1))
          [] key = "scheduled_off" ->
               IF ~Has(Params(device), "scheduled_on") THEN Raise(w)
               ELSE Succeed(Labels(w, <<"water_heater_schedule_info", id,
                                        PyStr(Get(Params(device), "scheduled_on")),
                                        PyStr(value)>>))
          [] OTHER -> Fail(w)

\* main.py:337-357
LightAction(w, device, key, value) ==
    LET id == Get(device, "id")
    IN  CASE key = "brightness" ->
               IF ~Has(Params(device), "is_dimmable") THEN Raise(w)
               ELSE Succeed(GaugeSet(w, <<"light_brightness", id,
                                          PyStr(Get(Params(device), "is_dimmable"))>>, value))
          [] key = "color" ->
               IF ~Has(Params(device), "dynamic_color") THEN Succeed(w)
               ELSE LET series == <<"light_color", id,
                                    PyStr(Get(Params(device), "dynamic_color"))>>
                    IN  IF value[1] # "str" THEN Raise(Labels(w, series))
                        ELSE IF value[2] \notin HexStrings THEN Succeed(Labels(w, series))
                        ELSE Succeed(GaugeSetNum(w, series, HexOf(value[2])))
          [] key \in {"is_dimmable", "dynamic_color"} -> Succeed(w)
          [] OTHER -> Fail(w)

\* main.py:358-387
AirConditionerAction(w, device, key, value) ==
    LET id == Get(device, "id")
    IN  CASE key = "temperature" ->
               Succeed(GaugeSet(w, <<"ac_temperature", id>>, value))
          [] key = "mode" ->
               Succeed(SetCategories(w, "ac_mode_status", id,
                                     <<"cool", "heat", "fan">>, value, FALSE))
          [] key = "fan_speed" ->
               Succeed(SetCategories(w, "ac_fan_status", id,
                                     <<"off", "low", "medium", "high">>, value, TRUE))
          [] key = "swing" ->
               Succeed(SetCategories(w, "ac_swing_status", id,
                                     <<"off", "on", "auto">>, value, TRUE))
          [] OTHER -> Fail(w)

\* main.py:388-399
DoorLockAction(w, device, key, value) ==
    CASE key = "auto_lock_enabled" -> Succeed(w)
      [] key = "battery_level" ->
           Succeed(GaugeSet(w, <<"lock_battery_level", Get(device, "id")>>, value))
      [] OTHER -> Fail(w)

\* main.py:400-407
CurtainAction(w, device, key, value) ==
    CASE key = "position" -> Succeed(w)
      [] OTHER -> Fail(w)

\* main.py:293-411; the success flag of the (bool, reason) result is w.ret
device_metrics_action(w, device, key, value) ==
    LET type == Get(device, "type")
    IN  CASE type = "water_heater" -> WaterHeaterAction(w, device, key, value)
          [] type = "light" -> LightAction(w, device, key, value)
          [] type = "air_conditioner" -> AirConditionerAction(w, device, key, value)
          [] type = "door_lock" -> DoorLockAction(w, device, key, value)
          [] type = "curtain" -> CurtainAction(w, device, key, value)
          [] OTHER -> Fail(w)

\* a table that allows the curtain's parameter to every type
PositionOnly(device_type) == {"position"}

\* main.py:254-282
AllowedParameters(device_type) ==
    CASE device_type = "water_heater" ->
           {"temperature", "target_temperature", "is_heating", "timer_enabled",
            "scheduled_on", "scheduled_off"}
      [] device_type = "light" -> {"brightness", "color", "is_dimmable", "dynamic_color"}
      [] device_type = "air_conditioner" -> {"temperature", "mode", "fan_speed", "swing"}
      [] device_type = "door_lock" -> {"auto_lock_enabled", "battery_level"}
      [] device_type = "curtain" -> {"position"}
      [] OTHER -> {}

DeviceTypes == {"water_heater", "light", "air_conditioner", "door_lock", "curtain"}

\* main.py:251-290
validate_action_parameters(device_type, updated_parameters) ==
    /\ device_type \in DeviceTypes
    /\ Keys(updated_parameters) \subseteq AllowedParameters(device_type)

\* main.py:608-627: one pair of updated_device after the other
RECURSIVE update_device_metrics(_, _, _)
update_device_metrics(w, old_device, updated_device) ==
    IF updated_device = <<>> \/ w.raised THEN w
    ELSE LET key == Head(updated_device)[1]
             value == Head(updated_device)[2]
             id == Get(old_device, "id")
             w1 == CASE key \in {"name", "room"} ->
                          GaugeSetNum(
                              GaugeSetNum(w, <<"device_metadata", id, key, Get(old_device, key)>>, 0),
                              <<"device_metadata", id, key, value>>, 1)
                     [] key = "status" -> update_binary_device_status(w, old_device, value)
                     [] OTHER -> w
         IN  update_device_metrics(w1, old_device, Tail(updated_device))

-----------------------------------------------------------------------------
(* First-seen bootstrap: mark_device_read, main.py:102-112 *)

\* main.py:104 without the membership test
IsFirstSeenIgnoringSeen(w, device) ==
    Has(device, "id") /\ Get(device, "id") # ""

\* main.py:104; an absent or empty id is falsy
IsFirstSeen(w, device) ==
    /\ Has(device, "id")
    /\ Get(device, "id") # ""
    /\ Get(device, "id") \notin w.seen_devices

\* main.py:110-111: every parameter is projected, the results are ignored
RECURSIVE ProjectParameters(_, _, _)
ProjectParameters(w, device, params) ==
    IF params = <<>> \/ w.raised THEN w
    ELSE ProjectParameters(
             device_metrics_action(w, device, Head(params)[1], Head(params)[2]),
             device, Tail(params))

\* main.py:105-111
BootstrapBody(w, device) ==
    LET id == Get(device, "id")
        type == Get(device, "type")
        w1 == CounterInc(w, <<"device_on_events_total", id, type>>, 0)
        w2 == CounterInc(w1, <<"device_usage_seconds_total", id, type>>, 0)
        w3 == update_device_metrics(w2, device, device)
    IN  Then(w3, LAMBDA x : ProjectParameters(x, device, Params(device)))

\* main.py:112
AddSeen(w, device) == [w EXCEPT !.seen_devices = @ \cup {Get(device, "id")}]

mark_device_read(w, device) ==
    IF IsFirstSeen(w, device)
    THEN Then(BootstrapBody(w, device), LAMBDA x : AddSeen(x, device))
    ELSE w

-----------------------------------------------------------------------------
(* The persisted store (pymongo calls on devices_collection) *)

RECURSIVE FirstMatch(_, _, _)
FirstMatch(coll, id, i) ==
    IF i > Len(coll) THEN 0
    ELSE IF Has(coll[i], "id") /\ Get(coll[i], "id") = id THEN i
    ELSE FirstMatch(coll, id, i + 1)

find_one(coll, id) ==
    LET i == FirstMatch(coll, id, 1) IN IF i = 0 THEN None ELSE coll[i]

\* main.py:191-193
id_exists(w, device_id) == find_one(w.devices_collection, device_id) # None

insert_one(w, doc) == [w EXCEPT !.devices_collection = Append(@, doc)]

delete_one(w, id) ==
    LET i == FirstMatch(w.devices_collection, id, 1)
    IN  IF i = 0 THEN w
        ELSE [w EXCEPT !.devices_collection =
                 SubSeq(@, 1, i - 1) \o SubSeq(@, i + 1, Len(@))]

\* update_one({"id": id}, {"$set": fields})
update_one_set(w, id, fields) ==
    LET i == FirstMatch(w.devices_collection, id, 1)
    IN  IF i = 0 THEN w
        ELSE [w EXCEPT !.devices_collection[i] = PutAll(@, fields)]

\* update_one({"id": id}, {"$set": {"parameters.<key>": value, ...}})
update_one_set_parameters(w, id, fields) ==
    LET i == FirstMatch(w.devices_collection, id, 1)
    IN  IF i = 0 THEN w
        ELSE [w EXCEPT !.devices_collection[i] =
                 Put(@, "parameters",
                     PutAll(IF Has(@, "parameters") THEN Get(@, "parameters") ELSE <<>>, fields))]

-----------------------------------------------------------------------------
(* Outbound publish and responses *)

Topic(device_id, method) == <<"project", "home", device_id, method>>

Message(sender, contents) == << <<"sender", sender>>, <<"contents", contents>> >>

\* main.py:521-527
publish_mqtt(w, contents, device_id, method) ==
    [w EXCEPT !.pub = Append(@, [topic |-> Topic(device_id, method),
                                 payload |-> Message("backend", contents)])]

Respond(w, code) == IF w.raised THEN w ELSE [w EXCEPT !.resp = code]

\* Flask turns an uncaught exception of a view into a 500 response
Http(w) == IF w.raised THEN [w EXCEPT !.resp = 500] ELSE w

-----------------------------------------------------------------------------
(* HTTP handlers *)

RequiredFields == <<"id", "type", "room", "name", "status", "parameters">>

\* main.py:182-187
validate_device_data(new_device) ==
    \A i \in DOMAIN RequiredFields : Has(new_device, RequiredFields[i])

\* main.py:579-588
AddDeviceStore(w, new_device) ==
    LET w1 == insert_one(w, new_device)
        w2 == mark_device_read(w1, new_device)
        w3 == Then(w2, LAMBDA x : publish_mqtt(x, new_device, Get(new_device, "id"), "post"))
    IN  Respond(w3, 200)

\* main.py:572-589
add_device(w, new_device) ==
    Http(IF ~validate_device_data(new_device) THEN Respond(w, 400)
         ELSE IF id_exists(w, Get(new_device, "id")) THEN Respond(w, 400)
         ELSE AddDeviceStore(w, new_device))

\* main.py:596: set.remove raises KeyError for an absent element
RemoveSeen(w, device_id) ==
    IF device_id \in w.seen_devices
    THEN [w EXCEPT !.seen_devices = @ \ {device_id}]
    ELSE Raise(w)

\* main.py:596-604
DeleteDeviceStore(w, device_id) ==
    LET w1 == RemoveSeen(w, device_id)
        w2 == Then(w1, LAMBDA x : delete_one(x, device_id))
        w3 == Then(w2, LAMBDA x : publish_mqtt(x, <<>>, device_id, "delete"))
    IN  Respond(w3, 200)

\* main.py:593-605
delete_device(w, device_id) ==
    Http(IF id_exists(w, device_id) THEN DeleteDeviceStore(w, device_id)
         ELSE Respond(w, 404))

AllowedFields == {"room", "name", "status"}

\* main.py:635-636: pop("id", None), then a truthy id that differs is a mismatch
IdMismatch(payload, device_id) ==
    Has(payload, "id") /\ Get(payload, "id") # "" /\ Get(payload, "id") # device_id

\* main.py:640-644 letting every field through
HttpUpdateFieldsUnchecked(updated_device) == TRUE

\* main.py:640-644, with the id already popped
HttpUpdateFieldsLegal(updated_device) == Keys(Pop(updated_device, "id")) \subseteq AllowedFields

\* main.py:647-659; find_one may return None when the record vanished meanwhile
UpdateDeviceStore(w, device_id, device, updated_device) ==
    LET w1 == IF device = None THEN Raise(w)
              ELSE update_device_metrics(w, device, updated_device)
        w2 == Then(w1, LAMBDA x : update_one_set(x, device_id, updated_device))
        w3 == Then(w2, LAMBDA x : publish_mqtt(x, updated_device, device_id, "update"))
    IN  Respond(w3, 200)

\* main.py:631-660
update_device(w, device_id, payload) ==
    Http(IF IdMismatch(payload, device_id) THEN Respond(w, 400)
         ELSE IF ~HttpUpdateFieldsLegal(payload) THEN Respond(w, 400)
         ELSE IF ~id_exists(w, device_id) THEN Respond(w, 404)
         ELSE UpdateDeviceStore(w, device_id, find_one(w.devices_collection, device_id),
                                Pop(payload, "id")))

\* main.py:677-682 without the return on a failed parameter
RECURSIVE ApplyActionKeepGoing(_, _, _)
ApplyActionKeepGoing(w, device, action) ==
    IF w.raised THEN w
    ELSE IF action = <<>> THEN [w EXCEPT !.ret = TRUE]
    ELSE ApplyActionKeepGoing(
             device_metrics_action(w, device, Head(action)[1], Head(action)[2]),
             device, Tail(action))

\* main.py:445-450 and :677-682: project one parameter after the other and stop
\* at the first failure; w.ret tells whether all succeeded
RECURSIVE ApplyAction(_, _, _)
ApplyAction(w, device, action) ==
    IF w.raised THEN w
    ELSE IF action = <<>> THEN [w EXCEPT !.ret = TRUE]
    ELSE LET w1 == device_metrics_action(w, device, Head(action)[1], Head(action)[2])
         IN  IF w1.raised \/ ~w1.ret THEN w1
             ELSE ApplyAction(w1, device, Tail(action))

\* main.py:666-692
rt_action(w, device_id, action) ==
    LET device == find_one(w.devices_collection, device_id)
    IN  Http(IF device = None THEN Respond(w, 404)
             ELSE IF ~validate_action_parameters(Get(device, "type"), action)
             THEN Respond(w, 400)
             ELSE LET w1 == ApplyAction(w, device, action)
                  IN  IF w1.raised THEN w1
                      ELSE IF ~w1.ret THEN Respond(w1, 400)
                      ELSE Respond(publish_mqtt(
                               update_one_set_parameters(w1, device_id, action),
                               action, device_id, "action"), 200))

\* main.py:551-554
RECURSIVE MarkAll(_, _)
MarkAll(w, devices) ==
    IF devices = <<>> \/ w.raised THEN w
    ELSE MarkAll(
             IF Has(Head(devices), "id") /\ Get(Head(devices), "id") \notin w.seen_devices
             THEN mark_device_read(w, Head(devices)) ELSE w,
             Tail(devices))

\* main.py:548-555
get_all_devices(w) == Http(Respond(MarkAll(w, w.devices_collection), 200))

\* main.py:559-568: "id" in None raises TypeError
get_device(w, device_id) ==
    LET device == find_one(w.devices_collection, device_id)
    IN  Http(IF device = None THEN Raise(w)
             ELSE Respond(IF Get(device, "id") \notin w.seen_devices
                          THEN mark_device_read(w, device) ELSE w, 200))

-----------------------------------------------------------------------------
(* MQTT ingress: on_message, main.py:415-507.  topic is msg.topic.split('/'), *)
(* payload the decoded JSON object.                                          *)

\* main.py:440-455
MqttAction(w, device_id, device, payload) ==
    IF ~validate_action_parameters(Get(device, "type"), payload) THEN w
    ELSE LET w1 == ApplyAction(w, device, payload)
         IN  IF w1.raised \/ ~w1.ret THEN w1
             ELSE update_one_set_parameters(w1, device_id, payload)

\* main.py:462-466: here an "id" key is an illegal field like any other
MqttUpdateFieldsLegal(payload) == Keys(payload) \subseteq AllowedFields

\* main.py:456-473
MqttUpdate(w, device_id, device, payload) ==
    IF Has(payload, "id") /\ Get(payload, "id") # device_id THEN w
    ELSE IF ~MqttUpdateFieldsLegal(payload) THEN w
    ELSE Then(update_device_metrics(w, device, payload),
              LAMBDA x : update_one_set(x, device_id, payload))

\* main.py:474-489
MqttPost(w, device_id, payload) ==
    IF Has(payload, "id") /\ Get(payload, "id") # device_id THEN w
    ELSE IF ~validate_device_data(payload) THEN w
    ELSE IF id_exists(w, Get(payload, "id")) THEN w
    ELSE Then(mark_device_read(w, payload), LAMBDA x : insert_one(x, payload))

\* main.py:490-500
MqttDelete(w, device_id, device) ==
    IF ~id_exists(w, device_id) THEN w
    ELSE LET w1 == IF Get(device, "status") = "on"
                   THEN update_binary_device_status(w, device, "off") ELSE w
         IN  Then(w1, LAMBDA x : delete_one(x, device_id))

\* main.py:431-504
MqttDispatch(w, topic, payload) ==
    IF Len(topic) # 4 THEN w
    ELSE LET device_id == topic[3]
             method == topic[4]
             device == find_one(w.devices_collection, device_id)
         IN  IF device = None THEN w
             ELSE CASE method = "action" -> MqttAction(w, device_id, device, payload)
                    [] method = "update" -> MqttUpdate(w, device_id, device, payload)
                    [] method = "post" -> MqttPost(w, device_id, payload)
                    [] method = "delete" -> MqttDelete(w, device_id, device)
                    [] OTHER -> w

\* a receiver that drops only the messages without sender
HasSender(payload) == Has(payload, "sender")

\* main.py:415-428: a message of the backend itself or without sender is dropped
IsProcessed(payload) == Has(payload, "sender") /\ Get(payload, "sender") # "backend"

on_message(w, topic, payload) ==
    IF ~IsProcessed(payload) THEN w
    ELSE IF ~Has(payload, "contents") THEN Raise(w)
    ELSE MqttDispatch(w, topic, Get(payload, "contents"))

-----------------------------------------------------------------------------
(* Analytics: device_analytics, main.py:770-847.  A datetime is the number *)
(* of clock units since the process started; a duration divided by 60 is   *)
(* held as the fraction <<numerator, 60>>.                                  *)

\* main.py:778: timedelta(days=7), in clock units
Week == 7

\* an ISO-8601 string denoting instant t, as a request body carries it
Iso(t) == <<"iso", t>>

\* datetime.fromisoformat: any other string raises ValueError
IsoOk(v) == v[1] = "iso"

fromisoformat(v) == v[2]

\* main.py:803, :812: seconds / 60
Minutes(seconds) == <<seconds, 60>>

AddMinutes(a, b) == <<a[1] + b[1], 60>>

\* main.py:725-727, :765-767: the error dict of a failed query
QueryError(detail) == <<"error", detail>>

\* main.py:724, :764: the result list of a successful query
QueryResult(items) == <<"result", items>>

\* one sample of an instant query; Prometheus sends the value as [ts, "<numeral>"]
Sample(device_id, device_type, ts, n) ==
    << <<"metric", << <<"device_id", device_id>>, <<"device_type", device_type>> >> >>,
       <<"value", <<ts, <<"numeral", n>> >> >> >>

SampleWithoutValue(device_id, device_type) ==
    << <<"metric", << <<"device_id", device_id>>, <<"device_type", device_type>> >> >> >>

\* float(item["value"][1])
SampleFloat(item) == Get(item, "value")[2][2]

\* main.py:787, :790: isinstance(results, dict)
IsDict(results) == results[1] = "error"

\* main.py:790: "error" in usage_results.  In the error dict it is a key; in
\* a result list it would have to be an element, and the elements are dicts
ErrorIn(results) == IsDict(results)

Respond500(w, details) ==
    [w EXCEPT !.resp = 500,
              !.body = << <<"error", "Failed to query Prometheus">>, <<"details", details>> >>]

\* main.py:805-814: the overlap added on top of the counter-derived usage
ExtraSeconds(ledger, device_id, from_ts, to_ts) ==
    LET interval == get_device_on_interval_at_time(ledger, device_id, to_ts)
    IN  IF interval = None THEN 0
        ELSE LET on_time == interval[1]
                 off_time_or_to == IF Len(interval) = 1 THEN to_ts ELSE interval[2]
                 effective_start == IF on_time >= from_ts THEN on_time ELSE from_ts
                 effective_end == IF off_time_or_to <= to_ts THEN off_time_or_to ELSE to_ts
             IN  effective_end - effective_start

\* main.py:796-814
RECURSIVE UsageLoop(_, _, _, _, _)
UsageLoop(json, items, ledger, from_ts, to_ts) ==
    IF items = <<>> THEN json
    ELSE LET item == Head(items)
             device_id == IF Has(Get(item, "metric"), "device_id")
                          THEN Get(Get(item, "metric"), "device_id") ELSE "unknown"
             entry == IF Has(json, device_id) THEN Get(json, device_id) ELSE <<>>
             usage == Minutes(SampleFloat(item))
             extra == Minutes(ExtraSeconds(ledger, device_id, from_ts, to_ts))
             total == IF get_device_on_interval_at_time(ledger, device_id, to_ts) = None
                      THEN usage ELSE AddMinutes(usage, extra)
         IN  IF ~Has(item, "value")
             THEN UsageLoop(json, Tail(items), ledger, from_ts, to_ts)
             ELSE UsageLoop(Put(json, device_id, Put(entry, "total_usage_minutes", total)),
                            Tail(items), ledger, from_ts, to_ts)

\* main.py:815-822 over a result list
RECURSIVE EventLoop(_, _)
EventLoop(json, items) ==
    IF items = <<>> THEN json
    ELSE LET item == Head(items)
             device_id == IF Has(Get(item, "metric"), "device_id")
                          THEN Get(Get(item, "metric"), "device_id") ELSE "unknown"
             entry == IF Has(json, device_id) THEN Get(json, device_id) ELSE <<>>
         IN  IF ~Has(item, "value") THEN EventLoop(json, Tail(items))
             ELSE EventLoop(Put(json, device_id, Put(entry, "on_events", SampleFloat(item))),
                            Tail(items))

\* main.py:815-818 over the error dict: the loop visits its one key, the
\* string "error", in which "value" does not occur, and skips it
EventLoopOver(json, event_results) ==
    IF IsDict(event_results) THEN json ELSE EventLoop(json, event_results[2])

\* main.py:825-826
RECURSIVE SumField(_, _, _)
SumField(json, field, zero) ==
    IF json = <<>> THEN zero
    ELSE LET d == Head(json)[2]
             rest == SumField(Tail(json), field, zero)
         IN  IF ~Has(d, field) THEN rest
             ELSE IF field = "total_usage_minutes"
                  THEN (IF rest = 0 THEN Get(d, field) ELSE AddMinutes(Get(d, field), rest))
                  ELSE Get(d, field) + rest

\* main.py:824-843
Report(w, json, from_ts, to_ts) ==
    [w EXCEPT !.resp = 200,
              !.body = << <<"analytics_window", << <<"from", Iso(from_ts)>>, <<"to", Iso(to_ts)>> >> >>,
                          <<"aggregate",
                            << <<"total_devices", Cardinality(w.seen_devices)>>,
                               <<"total_on_events", SumField(json, "on_events", 0)>>,
                               <<"total_usage_minutes", SumField(json, "total_usage_minutes", 0)>> >> >>,
                          <<"on_devices", json>> >>]

\* main.py:845-847
InternalError(w) ==
    [w EXCEPT !.resp = 500, !.body = << <<"error", "Internal server error">> >>]

\* main.py:781 with > for >=
InvalidWindowStrict(from_ts, to_ts) == from_ts > to_ts

\* main.py:781
InvalidWindow(from_ts, to_ts) == from_ts >= to_ts

\* main.py:784-843, once the two queries have returned
Aggregate(w, from_ts, to_ts, usage_results, event_results) ==
    IF IsDict(usage_results) /\ ErrorIn(usage_results)
    THEN Respond500(w, usage_results[2])
    ELSE IF IsDict(event_results) /\ ErrorIn(usage_results)
    THEN Respond500(w, event_results[2])
    ELSE LET usage == UsageLoop(<<>>, usage_results[2], w.device_on_intervals,
                                from_ts, to_ts)
         IN  Report(w, EventLoopOver(usage, event_results), from_ts, to_ts)

\* main.py:770-847; usage_results and event_results are what the two calls of
\* query_prometheus_point_increase (main.py:784, :785) return
device_analytics(w, body, usage_results, event_results) ==
    IF \/ Has(body, "to") /\ ~IsoOk(Get(body, "to"))
       \/ Has(body, "from") /\ ~IsoOk(Get(body, "from"))
    THEN InternalError(w)
    ELSE LET to_ts == IF Has(body, "to") THEN fromisoformat(Get(body, "to")) ELSE w.now
             from_ts == IF Has(body, "from") THEN fromisoformat(Get(body, "from"))
                        ELSE to_ts - Week
         IN  IF InvalidWindow(from_ts, to_ts)
             THEN [w EXCEPT !.resp = 400,
                            !.body = << <<"error", "'from' must be before 'to'">> >>]
             ELSE Aggregate([w EXCEPT !.queried = TRUE], from_ts, to_ts,
                            usage_results, event_results)

-----------------------------------------------------------------------------
(* The commands the model draws from *)

DeviceIds == {"d1"}

Device(id, type, room, status, params) ==
    << <<"id", id>>, <<"type", type>>, <<"room", room>>, <<"name", "n1">>,
       <<"status", status>>, <<"parameters", params>> >>

\* src/Test/test.py:10-20
LightParams == << <<"is_dimmable", VBool(FALSE)>>, <<"dynamic_color", VBool(FALSE)>> >>

\* a light whose brightness is given without is_dimmable
BareLightParams == << <<"brightness", VNum(50)>> >>

HeaterParams == << <<"is_heating", VBool(FALSE)>> >>

\* posts of the command scenario: the test's light, a light whose bootstrap
\* fails, and a payload missing a required field
PostPayloads ==
    UNION {{Device(id, "light", "r1", "off", LightParams),
            Device(id, "light", "r1", "off", BareLightParams),
            Pop(Device(id, "light", "r1", "off", LightParams), "status")} : id \in DeviceIds}

UpdatePayloads ==
    {<< <<"room", "r2">> >>,
     << <<"id", "d1">>, <<"room", "r2">> >>,
     << <<"id", "d2">>, <<"room", "r2">> >>,
     << <<"room", "r2">>, <<"type", "curtain">> >>}

\* posts and actions of the action scenario: a water heater and a device of
\* an unknown type
HeaterPosts ==
    UNION {{Device(id, "water_heater", "r1", "off", HeaterParams),
            Device(id, "toaster", "r1", "off", <<>>)} : id \in DeviceIds}

ActionPayloads ==
    {<< <<"is_heating", VBool(TRUE)>> >>,
     << <<"temperature", VNum(50)>>, <<"is_heating", VStr("yes")>> >>,
     << <<"temperature", VNum(50)>>, <<"brightness", VNum(50)>> >>,
     << <<"is_heating", VBool(TRUE)>>, <<"temperature", VStr("hot")>> >>}

HeaterFlags == {"is_heating", "timer_enabled"}

\* actions on the binary flags of a water heater: booleans, a string, a number
FlagActions ==
    {<< <<flag, v>> >> : flag \in HeaterFlags,
                         v \in {VBool(TRUE), VBool(FALSE), VStr("yes"), VNum(1)}}

FlagPosts == {Device(id, "water_heater", "r1", "off", HeaterParams) : id \in DeviceIds}

\* posts and updates of the ledger scenario: status changes only
LedgerPosts ==
    UNION {{Device(id, "light", "r1", "off", LightParams),
            Device(id, "light", "r1", "on", LightParams)} : id \in DeviceIds}

LedgerUpdates == {<< <<"status", "on">> >>, << <<"status", "off">> >>}

\* the test light, created off
ConcPosts == {Device(id, "light", "r1", "off", LightParams) : id \in DeviceIds}

ConcUpdates == {<< <<"status", "on">> >>}

LightActions == {<< <<"brightness", VNum(50)>> >>}

AcParams == << <<"temperature", VNum(24)>>, <<"mode", VStr("cool")>> >>

AcPosts == {Device(id, "air_conditioner", "r1", "off", AcParams) : id \in DeviceIds}

AcModes == {"cool", "heat", "fan"}

AcFanSpeeds == {"off", "low", "medium", "high"}

AcSwings == {"off", "on", "auto"}

\* actions that select one category of one of the categorical parameters
AcActions ==
    {<< <<"mode", VStr(v)>> >> : v \in AcModes}
    \cup {<< <<"fan_speed", VStr(v)>> >> : v \in AcFanSpeeds}
    \cup {<< <<"swing", VStr(v)>> >> : v \in AcSwings}

\* what the store may hold when the process starts: nothing, or a device that
\* an earlier run of the process persisted
InitialStores ==
    {<<>>} \cup {<<Device(id, "light", "r1", "on", LightParams)>> : id \in DeviceIds}

MqttSenders == {"simulator", "backend"}

Messages(method, senders, contents) ==
    [topic : {Topic(id, method) : id \in DeviceIds},
     payload : {Message(s, c) : s \in senders, c \in contents}]

MqttMessages ==
    Messages("post", {"simulator"}, PostPayloads)
    \cup Messages("update", MqttSenders, UpdatePayloads)
    \cup Messages("delete", {"simulator"}, {<<>>})
    \cup [topic : {<<"project", "home", "d1">>},
          payload : {Message("simulator", << <<"room", "r2">> >>)}]
    \cup [topic : {Topic("d1", "update")},
          payload : {<< <<"contents", << <<"room", "r2">> >> >> >>}]

ActionMessages == Messages("action", {"simulator"}, ActionPayloads)

AcMessages == Messages("action", {"simulator"}, AcActions)

FlagMessages == Messages("action", {"simulator"}, FlagActions)

LedgerMessages ==
    Messages("post", {"simulator"}, LedgerPosts)
    \cup Messages("update", {"simulator"}, LedgerUpdates)
    \cup Messages("delete", {"simulator"}, {<<>>})

\* the margin by which an analytics window may reach beyond the clock's range
AnalyticsMargin == 1

WindowTimes == (0 - AnalyticsMargin)..(MaxTime + AnalyticsMargin)

Window(f, t) == << <<"from", Iso(f)>>, <<"to", Iso(t)>> >>

\* request bodies of the analytics call: none, a window, a malformed timestamp
AnalyticsBodies ==
    {<<>>}
    \cup {Window(f, t) : f \in WindowTimes, t \in WindowTimes}
    \cup {<< <<"to", VStr("soon")>> >>}

RECURSIVE SeriesSeq(_)
SeriesSeq(S) ==
    IF S = {} THEN <<>>
    ELSE LET series == CHOOSE x \in S : TRUE
         IN  <<series>> \o SeriesSeq(S \ {series})

\* the increase of every series of a counter since the process started: what
\* increase(counter[window]) is, exactly, for a window that begins before it
Increase(m, counter, ts) ==
    LET series == SeriesSeq({k \in DOMAIN m : k[1] = counter})
    IN  [i \in DOMAIN series |-> Sample(series[i][2], series[i][3], ts, m[series[i]])]

ExactUsage(m, ts) == QueryResult(Increase(m, "device_usage_seconds_total", ts))

ExactEvents(m, ts) == QueryResult(Increase(m, "device_on_events_total", ts))

\* what a working metrics backend answers to the usage query and to the
\* on-event query of one call: the exact increases, or no samples
BackendAnswers(m, ts) ==
    {<<ExactUsage(m, ts), ExactEvents(m, ts)>>,
     <<QueryResult(<<>>), QueryResult(<<>>)>>}

\* the same with a backend that can fail a query (requests.RequestException)
\* or return a sample without a value
FaultyBackendAnswers(m, ts) ==
    BackendAnswers(m, ts)
    \cup {<<ExactUsage(m, ts), QueryError("timeout")>>,
          <<QueryError("timeout"), ExactEvents(m, ts)>>,
          <<QueryError("timeout"), QueryError("timeout")>>,
          <<QueryResult(<<SampleWithoutValue("d1", "light")>>), ExactEvents(m, ts)>>}

\* analytics requests against the faulty backend: the default window, a
\* window around the clock's range, an empty one, a reversed one
DefaultBodies ==
    {<<>>, Window(0 - AnalyticsMargin, MaxTime + AnalyticsMargin), Window(0, 0), Window(MaxTime, 0)}

-----------------------------------------------------------------------------
(* State machine: one command at a time, each handler run to completion *)

HttpThreads == {"http1", "http2"}

MqttThread == "mqtt"

Threads == HttpThreads \cup {MqttThread}

\* a handler's local variables: the request, the record it read, the records
\* it still has to visit, and where it continues after mark_device_read
Locals(payload, device_id, device, devices, after) ==
    [payload |-> payload, device_id |-> device_id, device |-> device,
     devices |-> devices, after |-> after]

NoLocals == Locals(<<>>, "", None, <<>>, "idle")

Event(path, method, id, payload, w) ==
    [path |-> path, method |-> method, id |-> id, payload |-> payload,
     resp |-> w.resp, body |-> w.body, queried |-> w.queried,
     raised |-> w.raised, pub |-> w.pub]

NoEvent == [path |-> "none", method |-> "", id |-> "", payload |-> <<>>,
            resp |-> 0, body |-> <<>>, queried |-> FALSE, raised |-> FALSE, pub |-> <<>>]

Init ==
    /\ devices_collection \in InitialStores
    /\ seen_devices = {}
    /\ device_on_intervals = <<>>
    /\ metrics = <<>>
    /\ now = 0
    /\ evt = NoEvent
    /\ pc = [t \in Threads |-> "idle"]
    /\ loc = [t \in Threads |-> NoLocals]

InitEmpty == Init /\ devices_collection = <<>>

WithinBounds(w) ==
    /\ w.now <= MaxTime
    /\ \A id \in DOMAIN w.device_on_intervals : Len(w.device_on_intervals[id]) <= MaxIntervals
    /\ \A series \in DOMAIN w.metrics :
           series[1] = "device_usage_seconds_total" => w.metrics[series] <= MaxUsage

Commit(w) ==
    /\ WithinBounds(w)
    /\ devices_collection' = w.devices_collection
    /\ seen_devices' = w.seen_devices
    /\ device_on_intervals' = w.device_on_intervals
    /\ metrics' = w.metrics
    /\ now' = w.now

Tick ==
    /\ now < MaxTime
    /\ now' = now + 1
    /\ evt' = [NoEvent EXCEPT !.path = "clock"]
    /\ UNCHANGED <<devices_collection, seen_devices, device_on_intervals, metrics, pc, loc>>

HttpPost(posts) ==
    \E new_device \in posts, lag \in 0..MaxLag :
        LET w == add_device(World(lag), new_device)
        IN  /\ Commit(w)
            /\ evt' = Event("http", "post",
                            IF Has(new_device, "id") THEN Get(new_device, "id") ELSE "",
                            new_device, w)
            /\ UNCHANGED <<pc, loc>>

HttpDelete ==
    \E device_id \in DeviceIds, lag \in 0..MaxLag :
        LET w == delete_device(World(lag), device_id)
        IN  /\ Commit(w)
            /\ evt' = Event("http", "delete", device_id, <<>>, w)
            /\ UNCHANGED <<pc, loc>>

HttpPut(updates) ==
    \E device_id \in DeviceIds, payload \in updates, lag \in 0..MaxLag :
        LET w == update_device(World(lag), device_id, payload)
        IN  /\ Commit(w)
            /\ evt' = Event("http", "update", device_id, payload, w)
            /\ UNCHANGED <<pc, loc>>

HttpAction(actions) ==
    \E device_id \in DeviceIds, action \in actions, lag \in 0..MaxLag :
        LET w == rt_action(World(lag), device_id, action)
        IN  /\ Commit(w)
            /\ evt' = Event("http", "action", device_id, action, w)
            /\ UNCHANGED <<pc, loc>>

HttpGetAll ==
    \E lag \in 0..MaxLag :
        LET w == get_all_devices(World(lag))
        IN  /\ Commit(w)
            /\ evt' = Event("http", "list", "", <<>>, w)
            /\ UNCHANGED <<pc, loc>>

HttpGetOne ==
    \E device_id \in DeviceIds, lag \in 0..MaxLag :
        LET w == get_device(World(lag), device_id)
        IN  /\ Commit(w)
            /\ evt' = Event("http", "get", device_id, <<>>, w)
            /\ UNCHANGED <<pc, loc>>

MqttReceive(messages) ==
    \E msg \in messages, lag \in 0..MaxLag :
        LET w == on_message(World(lag), msg.topic, msg.payload)
        IN  /\ Commit(w)
            /\ evt' = Event("mqtt",
                            IF Len(msg.topic) = 4 THEN msg.topic[4] ELSE "",
                            IF Len(msg.topic) >= 3 THEN msg.topic[3] ELSE "",
                            msg.payload, w)
            /\ UNCHANGED <<pc, loc>>

\* The call reads the program's state and changes none of it, so a call that
\* follows another call shows nothing the first one alone does not: the model
\* takes the calls one at a time, between commands.
HttpAnalytics(bodies, faulty) ==
    \E body \in bodies,
       answers \in IF faulty THEN FaultyBackendAnswers(metrics, now)
                   ELSE BackendAnswers(metrics, now) :
        LET w == device_analytics(World(0), body, answers[1], answers[2])
        IN  /\ evt.method # "analytics"
            /\ Commit(w)
            /\ evt' = Event("http", "analytics", "",
                            << <<"body", body>>, <<"usage", answers[1]>>,
                               <<"events", answers[2]>> >>, w)
            /\ UNCHANGED <<pc, loc>>

\* The ledger scenario: status commands on both ingress paths, reads, time
Next ==
    \/ Tick
    \/ HttpPost(LedgerPosts)
    \/ HttpDelete
    \/ HttpPut(LedgerUpdates)
    \/ HttpGetAll
    \/ MqttReceive(LedgerMessages)

Spec == Init /\ [][Next]_vars

\* The command scenario: posts, field updates, deletes and reads, well-formed
\* and not, at one instant
NextCommands ==
    \/ HttpPost(PostPayloads)
    \/ HttpDelete
    \/ HttpPut(UpdatePayloads)
    \/ HttpGetAll
    \/ HttpGetOne
    \/ MqttReceive(MqttMessages)

SpecCommands == Init /\ [][NextCommands]_vars

\* The action scenario: parameter commands on a water heater and on a device
\* of an unknown type
NextActions ==
    \/ HttpPost(HeaterPosts)
    \/ HttpDelete
    \/ HttpAction(ActionPayloads)
    \/ MqttReceive(ActionMessages)

SpecActions == Init /\ [][NextActions]_vars

\* The bootstrap scenario: posts, reads and deletes on both ingress paths, time
DeleteMessages == Messages("delete", {"simulator"}, {<<>>})

NextBootstrap ==
    \/ Tick
    \/ HttpPost(LedgerPosts)
    \/ HttpDelete
    \/ HttpGetAll
    \/ MqttReceive(DeleteMessages)

SpecBootstrap == Init /\ [][NextBootstrap]_vars

\* The analytics scenario: a light created off and switched over HTTP, time,
\* analytics calls for every window against a working backend
NextAnalytics ==
    \/ Tick
    \/ HttpPost(ConcPosts)
    \/ HttpPut(LedgerUpdates)
    \/ HttpAnalytics(AnalyticsBodies, FALSE)

SpecAnalytics == InitEmpty /\ [][NextAnalytics]_vars

\* The backend scenario: the same commands, analytics calls against a backend
\* that can fail
NextBackend ==
    \/ Tick
    \/ HttpPost(ConcPosts)
    \/ HttpPut(LedgerUpdates)
    \/ HttpAnalytics(DefaultBodies, TRUE)

SpecBackend == InitEmpty /\ [][NextBackend]_vars

\* The light scenario: a light created off, dimmed and switched over HTTP, time
NextLight ==
    \/ Tick
    \/ HttpPost(ConcPosts)
    \/ HttpAction(LightActions)
    \/ HttpPut(LedgerUpdates)

SpecLight == InitEmpty /\ [][NextLight]_vars

\* The climate scenario: an air conditioner and its categorical parameters
NextClimate ==
    \/ HttpPost(AcPosts)
    \/ HttpDelete
    \/ HttpAction(AcActions)
    \/ MqttReceive(AcMessages)

SpecClimate == InitEmpty /\ [][NextClimate]_vars

\* The flag scenario: a water heater and its binary flags
NextFlags ==
    \/ HttpPost(FlagPosts)
    \/ HttpDelete
    \/ HttpAction(FlagActions)
    \/ MqttReceive(FlagMessages)

SpecFlags == InitEmpty /\ [][NextFlags]_vars

-----------------------------------------------------------------------------
(* The handlers as threads.  Flask serves each request on a thread of its   *)
(* own and paho runs on_message on its network thread; none of them takes a *)
(* lock.  A step is one access to the store, or one stretch of code between *)
(* two accesses; a handler that ends returns its thread to "idle".          *)

Goto(t, label, locals) ==
    /\ pc' = [pc EXCEPT ![t] = label]
    /\ loc' = [loc EXCEPT ![t] = locals]

Finish(t) == Goto(t, "idle", NoLocals)

Shared == <<devices_collection, seen_devices, device_on_intervals, metrics>>

\* main.py:574-578: validation, then the id_exists read
PostBegin(t) ==
    \E new_device \in ConcPosts :
        /\ pc[t] = "idle"
        /\ validate_device_data(new_device)
        /\ IF id_exists(World(0), Get(new_device, "id"))
           THEN Finish(t)
           ELSE Goto(t, "post_insert",
                     Locals(new_device, Get(new_device, "id"), new_device, <<>>, "post_publish"))
        /\ UNCHANGED <<Shared, now, evt>>

\* main.py:579
PostInsert(t) ==
    /\ pc[t] = "post_insert"
    /\ Commit(insert_one(World(0), loc[t].payload))
    /\ Goto(t, "mark_check", loc[t])
    /\ UNCHANGED evt

\* main.py:583-588
PostPublish(t) ==
    /\ pc[t] = "post_publish"
    /\ Finish(t)
    /\ UNCHANGED <<Shared, now, evt>>

\* main.py:550: the listing is a snapshot of the collection
ListFind(t) ==
    /\ pc[t] = "idle"
    /\ devices_collection # <<>>
    /\ Goto(t, "list_next", Locals(<<>>, "", None, devices_collection, "list_next"))
    /\ UNCHANGED <<Shared, now, evt>>

\* main.py:551-555: the membership test of the loop, then the call
ListNext(t) ==
    /\ pc[t] = "list_next"
    /\ IF loc[t].devices = <<>> THEN Finish(t)
       ELSE LET device == Head(loc[t].devices)
                rest == [loc[t] EXCEPT !.devices = Tail(@), !.device = device]
            IN  IF Has(device, "id") /\ Get(device, "id") \notin seen_devices
                THEN Goto(t, "mark_check", rest)
                ELSE Goto(t, "list_next", rest)
    /\ UNCHANGED <<Shared, now, evt>>

\* main.py:104
MarkCheck(t) ==
    /\ pc[t] = "mark_check"
    /\ IF IsFirstSeen(World(0), loc[t].device)
       THEN Goto(t, "mark_body", loc[t])
       ELSE Goto(t, loc[t].after, loc[t])
    /\ UNCHANGED <<Shared, now, evt>>

\* main.py:105-111
MarkBody(t) ==
    /\ pc[t] = "mark_body"
    /\ LET w == BootstrapBody(World(0), loc[t].device)
       IN  /\ Commit(w)
           /\ IF w.raised THEN Finish(t) ELSE Goto(t, "mark_add", loc[t])
    /\ UNCHANGED evt

\* main.py:112
MarkAdd(t) ==
    /\ pc[t] = "mark_add"
    /\ Commit(AddSeen(World(0), loc[t].device))
    /\ Goto(t, loc[t].after, loc[t])
    /\ UNCHANGED evt

\* main.py:633-645: the checks of the payload, then the id_exists read
HttpUpdateBegin(t) ==
    \E device_id \in DeviceIds, payload \in ConcUpdates :
        /\ pc[t] = "idle"
        /\ ~IdMismatch(payload, device_id)
        /\ HttpUpdateFieldsLegal(payload)
        /\ id_exists(World(0), device_id)
        /\ Goto(t, "upd_find", Locals(Pop(payload, "id"), device_id, None, <<>>, "idle"))
        /\ UNCHANGED <<Shared, now, evt>>

\* main.py:647
HttpUpdateFind(t) ==
    /\ pc[t] = "upd_find"
    /\ Goto(t, "upd_project", [loc[t] EXCEPT !.device = find_one(devices_collection, loc[t].device_id)])
    /\ UNCHANGED <<Shared, now, evt>>

\* main.py:420-438 and :458-466: the checks, with the find_one read
MqttUpdateBegin(t) ==
    \E msg \in Messages("update", {"simulator"}, ConcUpdates) :
        LET payload == Get(msg.payload, "contents")
            device_id == msg.topic[3]
            device == find_one(devices_collection, device_id)
        IN  /\ pc[t] = "idle"
            /\ IsProcessed(msg.payload)
            /\ device # None
            /\ ~(Has(payload, "id") /\ Get(payload, "id") # device_id)
            /\ MqttUpdateFieldsLegal(payload)
            /\ Goto(t, "upd_project", Locals(payload, device_id, device, <<>>, "idle"))
            /\ UNCHANGED <<Shared, now, evt>>

\* main.py:648 and :467, on the record read earlier
UpdateProject(t) ==
    /\ pc[t] = "upd_project"
    /\ \E lag \in 0..MaxLag :
          LET w == IF loc[t].device = None THEN Raise(World(lag))
                   ELSE update_device_metrics(World(lag), loc[t].device, loc[t].payload)
          IN  /\ Commit(w)
              /\ IF w.raised THEN Finish(t) ELSE Goto(t, "upd_write", loc[t])
    /\ UNCHANGED evt

\* main.py:650-659 and :469-473
UpdateWrite(t) ==
    /\ pc[t] = "upd_write"
    /\ Commit(update_one_set(World(0), loc[t].device_id, loc[t].payload))
    /\ Finish(t)
    /\ UNCHANGED evt

NextThreads ==
    \/ \E t \in HttpThreads : PostBegin(t)
    \/ \E t \in HttpThreads : PostInsert(t)
    \/ \E t \in HttpThreads : PostPublish(t)
    \/ \E t \in HttpThreads : ListFind(t)
    \/ \E t \in HttpThreads : ListNext(t)
    \/ \E t \in HttpThreads : MarkCheck(t)
    \/ \E t \in HttpThreads : MarkBody(t)
    \/ \E t \in HttpThreads : MarkAdd(t)
    \/ \E t \in HttpThreads : HttpUpdateBegin(t)
    \/ \E t \in HttpThreads : HttpUpdateFind(t)
    \/ MqttUpdateBegin(MqttThread)
    \/ \E t \in Threads : UpdateProject(t)
    \/ \E t \in Threads : UpdateWrite(t)

SpecThreads == InitEmpty /\ [][NextThreads]_vars

-----------------------------------------------------------------------------
(* An action on a binary flag, and a scrape of /metrics, as threads: the   *)
(* two gauge writes of flip_device_boolean_flag are two steps, and          *)
(* generate_latest() reads the gauges in one step.                          *)

\* main.py:308, :316: the gauge of the flag
FlagMetric(key) ==
    IF key = "is_heating" THEN "water_heater_is_heating_status"
    ELSE "water_heater_timer_enabled_status"

\* main.py:668-674
FlagActionBegin(t) ==
    \E device_id \in DeviceIds, action \in FlagActions :
        LET device == find_one(devices_collection, device_id)
        IN  /\ pc[t] = "idle"
            /\ device # None
            /\ validate_action_parameters(Get(device, "type"), action)
            /\ Goto(t, "flip_first", Locals(action, device_id, device, <<>>, "idle"))
            /\ UNCHANGED <<Shared, now, evt>>

\* main.py:166-170, or :176-178 and :681
FlipFirst(t) ==
    /\ pc[t] = "flip_first"
    /\ LET key == loc[t].payload[1][1]
           new_value == loc[t].payload[1][2]
       IN  IF new_value[1] # "bool"
           THEN Finish(t) /\ UNCHANGED Shared
           ELSE /\ Commit(GaugeSetNum(World(0),
                                      <<FlagMetric(key), loc[t].device_id, PyStr(new_value)>>, 1))
                /\ Goto(t, "flip_second", loc[t])
    /\ UNCHANGED <<now, evt>>

\* main.py:171-175
FlipSecond(t) ==
    /\ pc[t] = "flip_second"
    /\ LET key == loc[t].payload[1][1]
           new_value == loc[t].payload[1][2]
       IN  Commit(GaugeSetNum(World(0),
                              <<FlagMetric(key), loc[t].device_id,
                                PyStr(VBool(new_value[2] = 0))>>, 0))
    /\ Goto(t, "action_write", loc[t])
    /\ UNCHANGED evt

\* main.py:682-692
ActionWrite(t) ==
    /\ pc[t] = "action_write"
    /\ Commit(update_one_set_parameters(World(0), loc[t].device_id, loc[t].payload))
    /\ Finish(t)
    /\ UNCHANGED evt

\* main.py:537: the exposition holds the gauges as they are at this instant
Scrape(t) ==
    /\ pc[t] = "idle"
    /\ Goto(t, "scraped", Locals(metrics, "", None, <<>>, "idle"))
    /\ UNCHANGED <<Shared, now, evt>>

ScrapeReturn(t) ==
    /\ pc[t] = "scraped"
    /\ Finish(t)
    /\ UNCHANGED <<Shared, now, evt>>

NextScrape ==
    \/ HttpPost(FlagPosts)
    \/ \E t \in HttpThreads : FlagActionBegin(t)
    \/ \E t \in HttpThreads : FlipFirst(t)
    \/ \E t \in HttpThreads : FlipSecond(t)
    \/ \E t \in HttpThreads : ActionWrite(t)
    \/ \E t \in HttpThreads : Scrape(t)
    \/ \E t \in HttpThreads : ScrapeReturn(t)

SpecScrape == InitEmpty /\ [][NextScrape]_vars

-----------------------------------------------------------------------------
(* Vocabulary of the properties *)

OpenIntervals(ivs) == {i \in DOMAIN ivs : Len(ivs[i]) = 1}

Stored(id) == find_one(devices_collection, id)

\* the step removes the record of id from the store
Removes(id) == Stored(id) # None /\ find_one(devices_collection', id) = None

UsageSeconds(m, device) ==
    Value(m, <<"device_usage_seconds_total", Get(device, "id"), Get(device, "type")>>)

\* the command of evt as the handler saw it: the HTTP body, or the contents
\* of an MQTT message that on_message does not drop
Processed(e) ==
    \/ e.path = "http"
    \/ e.path = "mqtt" /\ IsProcessed(e.payload) /\ Has(e.payload, "contents")

Contents(e) == IF e.path = "mqtt" THEN Get(e.payload, "contents") ELSE e.payload

-----------------------------------------------------------------------------
(* C1: after any sequence of commands on either ingress path, and of reads, *)
(* the ledger holds at most one open interval (end unset) per device id.   *)

C1_AtMostOneOpenInterval ==
    \A id \in DOMAIN device_on_intervals :
        Cardinality(OpenIntervals(device_on_intervals[id])) <= 1

(* C2: two update commands {status: "on"} for one device that is off and   *)
(* in the Seen-Device Set, handled concurrently (two HTTP handlers, or an   *)
(* HTTP handler and the MQTT callback), open one interval, never two: no    *)
(* step appends an interval for a seen device that has one open.            *)

C2_SeenDeviceOpensOneInterval ==
    [][\A id \in DeviceIds :
          (/\ id \in seen_devices
           /\ Len(IntervalsOf(device_on_intervals', id)) > Len(IntervalsOf(device_on_intervals, id)))
          => OpenIntervals(IntervalsOf(device_on_intervals, id)) = {}
      ]_vars

(* C3: a delete, on either ingress path, of a device whose persisted status *)
(* is "on" closes the device's open interval and credits its duration to   *)
(* the usage counter; once the record is removed the ledger holds no open  *)
(* interval for the id.                                                    *)

C3_DeleteClosesOpenInterval ==
    [][\A id \in DeviceIds :
          (/\ evt'.method = "delete"
           /\ evt'.id = id
           /\ Removes(id)
           /\ Get(Stored(id), "status") = "on")
          => /\ OpenIntervals(IntervalsOf(device_on_intervals', id)) = {}
             /\ \A i \in OpenIntervals(IntervalsOf(device_on_intervals, id)) :
                    UsageSeconds(metrics', Stored(id))
                      >= UsageSeconds(metrics, Stored(id)) + (now - device_on_intervals[id][i][1])
      ]_vars

(* C4: after a delete that removed the record, on either ingress path, the *)
(* device id is no longer in the Seen-Device Set.                          *)

C4_DeleteForgetsDevice ==
    [][\A id \in DeviceIds :
          (evt'.method = "delete" /\ evt'.id = id /\ Removes(id))
          => id \notin seen_devices'
      ]_vars

(* C5: an HTTP post carrying all six required fields with an id not yet in *)
(* the store is afterwards returned unchanged by the device listing, and a *)
(* DELETE of that id then removes it from the store.                       *)

C5_PostListDeleteRoundTrip ==
    (/\ evt.path = "http"
     /\ evt.method = "post"
     /\ {"id", "type", "room", "name", "status", "parameters"} \subseteq Keys(evt.payload)
     /\ evt.resp # 400)
    => LET listed == get_all_devices(World(0))
           deleted == delete_device(World(0), evt.id)
       IN  /\ listed.resp = 200
           /\ find_one(listed.devices_collection, evt.id) = evt.payload
           /\ find_one(deleted.devices_collection, evt.id) = None

(* C6: an MQTT post from a sender other than "backend", on topic           *)
(* project/home/<id>/post, with all required fields and an id not in the   *)
(* store, persists the record and adds the id to the Seen-Device Set.      *)

C6_MqttPostPersists ==
    [][(/\ evt'.path = "mqtt"
        /\ evt'.method = "post"
        /\ Processed(evt')
        /\ {"id", "type", "room", "name", "status", "parameters"} \subseteq Keys(Contents(evt'))
        /\ Get(Contents(evt'), "id") = evt'.id
        /\ Stored(evt'.id) = None)
       => /\ find_one(devices_collection', evt'.id) = Contents(evt')
          /\ evt'.id \in seen_devices'
      ]_vars

(* C7: the first-seen bootstrap runs once per device id, also when two     *)
(* handlers observe the same unseen device concurrently: a thread that has  *)
(* run the bootstrap body (and is about to insert the id) is the only one   *)
(* to have done so, and the id is not yet in the Seen-Device Set.           *)

C7_BootstrapRunsOnce ==
    \A t \in Threads :
        pc[t] = "mark_add"
        => /\ Get(loc[t].device, "id") \notin seen_devices
           /\ \A u \in Threads \ {t} :
                  ~(pc[u] = "mark_add" /\ Get(loc[u].device, "id") = Get(loc[t].device, "id"))

(* C8: the first-seen initialisation run for a device id that is already   *)
(* in the Seen-Device Set changes nothing: an HTTP post answered 200 for   *)
(* such an id (add_device calls mark_device_read unconditionally) leaves   *)
(* every metric series, the ledger and the Seen-Device Set as they were.   *)

C8_SecondBootstrapIsNoOp ==
    [][(/\ evt'.path = "http"
        /\ evt'.method = "post"
        /\ evt'.resp = 200
        /\ evt'.id \in seen_devices)
       => /\ metrics' = metrics
          /\ device_on_intervals' = device_on_intervals
          /\ seen_devices' = seen_devices
      ]_vars

\* a device posted as "on" whose id was already seen: no interval was opened
C8_Witness ==
    /\ evt.path = "http"
    /\ evt.method = "post"
    /\ evt.resp = 200
    /\ Get(evt.payload, "status") = "on"
    /\ evt.id \in seen_devices
    /\ OpenIntervals(IntervalsOf(device_on_intervals, evt.id)) = {}

(* C9, in its widest reading: an update command (HTTP PUT or MQTT update)  *)
(* whose payload has any field outside {room, name, status} is rejected as *)
(* a whole: store, metrics, ledger and Seen-Device Set are unchanged and   *)
(* nothing is published.                                                   *)

C9_UpdateLeavesAllUnchanged ==
    /\ devices_collection' = devices_collection
    /\ metrics' = metrics
    /\ device_on_intervals' = device_on_intervals
    /\ seen_devices' = seen_devices
    /\ evt'.pub = <<>>

C9_ForeignFields(e) ==
    Keys(Contents(e)) \ ({"room", "name", "status"} \cup (IF e.path = "http" THEN {"id"} ELSE {}))

C10_InvalidValue(key, value) ==
    \/ key \in {"is_heating", "timer_enabled"} /\ value[1] # "bool"
    \/ key \in {"temperature", "target_temperature"} /\ ~FloatOk(value)

C10_Fails(device, action) ==
    \/ Get(device, "type") \notin DeviceTypes
    \/ \E i \in DOMAIN action :
          \/ action[i][1] \notin AllowedParameters(Get(device, "type"))
          \/ C10_InvalidValue(action[i][1], action[i][2])

C10_FailedActionPersistsNothing ==
    [][(/\ evt'.method = "action"
        /\ Processed(evt')
        /\ Stored(evt'.id) # None
        /\ C10_Fails(Stored(evt'.id), Contents(evt')))
       => devices_collection' = devices_collection
      ]_vars

\* a water heater's action whose first parameter is valid and whose second
\* is not, answered 400, with the first parameter not in the record
C10_Witness ==
    /\ evt.path = "http"
    /\ evt.method = "action"
    /\ evt.resp = 400
    /\ Len(evt.payload) = 2
    /\ evt.payload[1][1] = "temperature"
    /\ C10_InvalidValue(evt.payload[2][1], evt.payload[2][2])
    /\ Stored(evt.id) # None
    /\ Get(Stored(evt.id), "type") = "water_heater"
    /\ ~Has(Params(Stored(evt.id)), "temperature")

(* C11: an action command (HTTP or MQTT) whose parameters are all allowed   *)
(* for the device's type and one of which has an invalid value changes no   *)
(* metric series: gauges of valid parameters that precede the invalid one   *)
(* are not written either.                                                  *)

C11_RejectedActionLeavesMetrics ==
    [][(/\ evt'.method = "action"
        /\ Processed(evt')
        /\ Stored(evt'.id) # None
        /\ validate_action_parameters(Get(Stored(evt'.id), "type"), Contents(evt'))
        /\ \E i \in DOMAIN Contents(evt') :
               C10_InvalidValue(Contents(evt')[i][1], Contents(evt')[i][2]))
       => metrics' = metrics
      ]_vars

(* C12: for a device created off, turned on at T0 and off at T1 (its ledger *)
(* is the one closed interval [T0, T1]), an analytics request for the       *)
(* window [T0 - margin, T1 + margin], answered by the backend with the      *)
(* exact usage increase, reports the counter-derived usage and nothing on   *)
(* top of it; the counter is T1 - T0 up to the time between the two clock   *)
(* reads of the close.                                                      *)

C12_Case(id) ==
    LET ivs == IntervalsOf(device_on_intervals, id)
    IN  /\ evt.method = "analytics"
        /\ Stored(id) # None
        /\ Len(ivs) = 1
        /\ Len(ivs[1]) = 2
        /\ Get(evt.payload, "body") = Window(ivs[1][1] - AnalyticsMargin, ivs[1][2] + AnalyticsMargin)
        /\ Get(evt.payload, "usage") = ExactUsage(metrics, now)

C12_ClosedIntervalCountedOnce ==
    \A id \in DeviceIds :
        C12_Case(id)
        => LET iv == device_on_intervals[id][1]
               counted == UsageSeconds(metrics, Stored(id))
           IN  /\ evt.resp = 200
               /\ Get(Get(Get(evt.body, "on_devices"), id), "total_usage_minutes") = Minutes(counted)
               /\ counted - (iv[2] - iv[1]) \in 0..MaxLag

\* such a request for a device that was on for at least one clock unit
C12_Witness ==
    \E id \in DeviceIds :
        /\ C12_Case(id)
        /\ device_on_intervals[id][1][2] > device_on_intervals[id][1][1]
        /\ Get(Get(Get(evt.body, "on_devices"), id), "total_usage_minutes")
             = Minutes(device_on_intervals[id][1][2] - device_on_intervals[id][1][1])

(* C13: on the synchronous path, for a light created with status "off":    *)
(* action {brightness: 50} sets its brightness gauge to 50 and leaves its   *)
(* status gauge at 0; update {status: "on"} on the light while off opens    *)
(* exactly one interval, sets the status gauge to 1 and counts one on-event;*)
(* update {status: "off"} on the light while on closes that interval,       *)
(* credits the time since its start to the usage counter and counts no      *)
(* on-event; so the on-event counter equals the number of intervals.        *)

C13_StatusGauge(m, id) == Value(m, <<"device_status", id, "light">>)

C13_OnEvents(m, id) == Value(m, <<"device_on_events_total", id, "light">>)

C13_Brightness(m, id) == Value(m, <<"light_brightness", id, PyStr(VBool(FALSE))>>)

C13_Command(e, method, contents, id, status) ==
    /\ e.path = "http"
    /\ e.method = method
    /\ e.payload = contents
    /\ e.id = id
    /\ Stored(id) # None
    /\ Get(Stored(id), "status") = status

C13_EndToEnd ==
    [][\A id \in DeviceIds :
          LET ivs == IntervalsOf(device_on_intervals, id)
              ivs2 == IntervalsOf(device_on_intervals', id)
          IN  /\ C13_Command(evt', "action", << <<"brightness", VNum(50)>> >>, id, "off")
                 => /\ evt'.resp = 200
                    /\ C13_Brightness(metrics', id) = 50
                    /\ <<"device_status", id, "light">> \in DOMAIN metrics'
                    /\ C13_StatusGauge(metrics', id) = 0
              /\ C13_Command(evt', "update", << <<"status", "on">> >>, id, "off")
                 => /\ evt'.resp = 200
                    /\ OpenIntervals(ivs) = {}
                    /\ ivs2 = Append(ivs, <<now>>)
                    /\ C13_StatusGauge(metrics', id) = 1
                    /\ C13_OnEvents(metrics', id) = C13_OnEvents(metrics, id) + 1
              /\ C13_Command(evt', "update", << <<"status", "off">> >>, id, "on")
                 => /\ evt'.resp = 200
                    /\ ivs # <<>>
                    /\ ivs2 = [ivs EXCEPT ![Len(ivs)] = <<ivs[Len(ivs)][1], now>>]
                    /\ OpenIntervals(ivs2) = {}
                    /\ UsageSeconds(metrics', Stored(id))
                         = UsageSeconds(metrics, Stored(id)) + (now' - ivs[Len(ivs)][1])
                    /\ now' - now \in 0..MaxLag
                    /\ C13_StatusGauge(metrics', id) = 0
                    /\ C13_OnEvents(metrics', id) = C13_OnEvents(metrics, id)
              /\ C13_OnEvents(metrics', id) = Len(ivs2)
      ]_vars

\* the end of the sequence: the light dimmed to 50, on for two clock units,
\* off again, with one on-event
C13_Witness ==
    \E id \in DeviceIds :
        /\ evt.path = "http"
        /\ evt.method = "update"
        /\ evt.payload = << <<"status", "off">> >>
        /\ evt.resp = 200
        /\ Len(IntervalsOf(device_on_intervals, id)) = 1
        /\ Len(device_on_intervals[id][1]) = 2
        /\ device_on_intervals[id][1][2] - device_on_intervals[id][1][1] = 2
        /\ UsageSeconds(metrics, Stored(id)) = 2
        /\ C13_Brightness(metrics, id) = 50
        /\ C13_StatusGauge(metrics, id) = 0
        /\ C13_OnEvents(metrics, id) = 1

(* C14: the analytics call never returns a partial report: when either of  *)
(* its two backend queries fails (for a valid window), the call is answered *)
(* 500 with the upstream error detail.                                      *)

C14_Failed(results) == results[1] = "error"

C14_ValidWindow(body) ==
    body = <<>> \/ fromisoformat(Get(body, "from")) < fromisoformat(Get(body, "to"))

C14_NoPartialReport ==
    (/\ evt.method = "analytics"
     /\ C14_ValidWindow(Get(evt.payload, "body"))
     /\ \/ C14_Failed(Get(evt.payload, "usage"))
        \/ C14_Failed(Get(evt.payload, "events")))
    => /\ evt.resp = 500
       /\ Has(evt.body, "details")
       /\ Get(evt.body, "details") \in {Get(evt.payload, "usage")[2], Get(evt.payload, "events")[2]}

(* C15: an analytics call with from >= to (equal or later) is answered 400 *)
(* without querying the backend; with from < to and a backend that answers *)
(* it succeeds; with no device seen and empty query results the report has *)
(* total_devices, total_on_events and total_usage_minutes 0 and an empty   *)
(* per-device map.                                                         *)

C15_Window(e) ==
    LET body == Get(e.payload, "body")
    IN  /\ e.method = "analytics"
        /\ Has(body, "from")
        /\ Has(body, "to")

C15_From(e) == fromisoformat(Get(Get(e.payload, "body"), "from"))

C15_To(e) == fromisoformat(Get(Get(e.payload, "body"), "to"))

C15_Answered(e) ==
    ~C14_Failed(Get(e.payload, "usage")) /\ ~C14_Failed(Get(e.payload, "events"))

C15_WindowValidation ==
    C15_Window(evt)
    => /\ C15_From(evt) >= C15_To(evt)
          => /\ evt.resp = 400
             /\ Has(evt.body, "error")
             /\ ~evt.queried
       /\ (C15_From(evt) < C15_To(evt) /\ C15_Answered(evt))
          => /\ evt.resp = 200
             /\ evt.queried
       /\ (/\ C15_From(evt) < C15_To(evt)
           /\ seen_devices = {}
           /\ Get(evt.payload, "usage") = QueryResult(<<>>)
           /\ Get(evt.payload, "events") = QueryResult(<<>>))
          => /\ Get(evt.body, "on_devices") = <<>>
             /\ Get(evt.body, "aggregate")
                  = << <<"total_devices", 0>>, <<"total_on_events", 0>>,
                       <<"total_usage_minutes", 0>> >>

\* a window with from = to, rejected, for a device that has usage to report
C15_Witness ==
    /\ C15_Window(evt)
    /\ C15_From(evt) = C15_To(evt)
    /\ Get(evt.payload, "usage") # QueryResult(<<>>)
    /\ evt.resp = 400
    /\ ~evt.queried

(* C16: after any sequence of successful actions setting an air            *)
(* conditioner's mode to a value of {cool, heat, fan}, its mode gauges are  *)
(* one-hot: the gauge of the last selected mode is 1, the others are 0.     *)

C16_Selects(e, key, enum) ==
    /\ e.method = "action"
    /\ Processed(e)
    /\ Stored(e.id) # None
    /\ Get(Stored(e.id), "type") = "air_conditioner"
    /\ Has(Contents(e), key)
    /\ Get(Contents(e), key)[1] = "str"
    /\ Get(Contents(e), key)[2] \in enum

C16_OneHot(m, metric, id, enum, selected) ==
    \A v \in enum :
        /\ <<metric, id, v>> \in DOMAIN m
        /\ m[<<metric, id, v>>] = (IF v = selected THEN 1 ELSE 0)

C16_ModeGaugesOneHot ==
    [][/\ C16_Selects(evt', "mode", AcModes)
          => C16_OneHot(metrics', "ac_mode_status", evt'.id, AcModes,
                        Get(Contents(evt'), "mode")[2])
       /\ \A id \in DeviceIds :
              (\E v \in AcModes : <<"ac_mode_status", id, v>> \in DOMAIN metrics')
              => \E v \in AcModes : C16_OneHot(metrics', "ac_mode_status", id, AcModes, v)
      ]_vars

\* mode heat selected on a device whose mode was cool
C16_Witness ==
    /\ evt.method = "action"
    /\ Processed(evt)
    /\ Contents(evt) = << <<"mode", VStr("heat")>> >>
    /\ Stored(evt.id) # None
    /\ Get(Params(Stored(evt.id)), "mode") = VStr("heat")
    /\ C16_OneHot(metrics, "ac_mode_status", evt.id, AcModes, "heat")

(* C17: every successful action setting an air conditioner's fan_speed     *)
(* (off/low/medium/high) or swing (off/on/auto) to an enum value v leaves   *)
(* the gauge labelled v at 1 and the gauge of every other category at 0.    *)

C17_FanAndSwingGaugesOneHot ==
    [][/\ C16_Selects(evt', "fan_speed", AcFanSpeeds)
          => C16_OneHot(metrics', "ac_fan_status", evt'.id, AcFanSpeeds,
                        Get(Contents(evt'), "fan_speed")[2])
       /\ C16_Selects(evt', "swing", AcSwings)
          => C16_OneHot(metrics', "ac_swing_status", evt'.id, AcSwings,
                        Get(Contents(evt'), "swing")[2])
      ]_vars

(* C18: after any sequence of actions on a water heater's binary flags     *)
(* (is_heating, timer_enabled), once a flag has been given a boolean its    *)
(* "True" and "False" gauges sum to 1, with the gauge of the last accepted  *)
(* boolean at 1; a non-boolean value is rejected and changes neither gauge. *)

C18_Metric(flag) == "water_heater_" \o flag \o "_status"

C18_Gauge(m, flag, id, state) == Value(m, <<C18_Metric(flag), id, state>>)

C18_Sets(e, flag) ==
    /\ e.method = "action"
    /\ Processed(e)
    /\ Stored(e.id) # None
    /\ Get(Stored(e.id), "type") = "water_heater"
    /\ Keys(Contents(e)) = {flag}

C18_FlagGaugesPaired ==
    [][\A flag \in HeaterFlags :
          /\ (C18_Sets(evt', flag) /\ Get(Contents(evt'), flag)[1] = "bool")
             => LET new_value == Get(Contents(evt'), flag)
                IN  /\ C18_Gauge(metrics', flag, evt'.id, PyStr(new_value)) = 1
                    /\ C18_Gauge(metrics', flag, evt'.id, PyStr(VBool(new_value[2] = 0))) = 0
                    /\ evt'.path = "http" => evt'.resp = 200
          /\ (C18_Sets(evt', flag) /\ Get(Contents(evt'), flag)[1] # "bool")
             => /\ metrics' = metrics
                /\ devices_collection' = devices_collection
                /\ evt'.path = "http" => evt'.resp = 400
          /\ \A id \in DeviceIds :
                 (\E state \in {"True", "False"} :
                      <<C18_Metric(flag), id, state>> \in DOMAIN metrics')
                 => C18_Gauge(metrics', flag, id, "True")
                      + C18_Gauge(metrics', flag, id, "False") = 1
      ]_vars

\* is_heating switched to False after it had been True
C18_Witness ==
    /\ evt.method = "action"
    /\ Processed(evt)
    /\ Contents(evt) = << <<"is_heating", VBool(FALSE)>> >>
    /\ Stored(evt.id) # None
    /\ <<"water_heater_is_heating_status", evt.id, "True">> \in DOMAIN metrics
    /\ C18_Gauge(metrics, "is_heating", evt.id, "True") = 0
    /\ C18_Gauge(metrics, "is_heating", evt.id, "False") = 1

(* C19: the two writes of a binary-flag flip are atomic as a pair for      *)
(* concurrent metric readers: a scrape of a flag that has both its gauges   *)
(* never shows "True" and "False" both at 1, nor both at 0.                 *)

C19_ScrapeSeesPairedFlags ==
    \A t \in Threads :
        pc[t] = "scraped"
        => \A id \in DeviceIds, flag \in HeaterFlags :
               LET exposition == loc[t].payload
                   true == <<FlagMetric(flag), id, "True">>
                   false == <<FlagMetric(flag), id, "False">>
               IN  (true \in DOMAIN exposition /\ false \in DOMAIN exposition)
                   => exposition[true] + exposition[false] = 1

(* C20: after every completed command in any sequence of post, update and  *)
(* delete-then-re-post commands, for a stored device that has been          *)
(* bootstrapped and each metadata key (room, name), exactly one value label *)
(* of device_metadata for that (id, key) is 1, and it is the persisted      *)
(* value; all previously used values are 0.                                 *)

C20_ValidValues(id, key) ==
    {series[4] : series \in {s \in DOMAIN metrics :
                                /\ s[1] = "device_metadata"
                                /\ s[2] = id
                                /\ s[3] = key
                                /\ metrics[s] = 1}}

C20_OneValidMetadataValue ==
    \A id \in DeviceIds :
        (Stored(id) # None /\ id \in seen_devices)
        => \A key \in {"room", "name"} :
               Has(Stored(id), key) => C20_ValidValues(id, key) = {Get(Stored(id), key)}

(* C21: an MQTT message whose payload has sender "backend", or has no      *)
(* sender field, or whose topic does not have exactly 4 segments, is not   *)
(* processed: the store, every metric, the ledger and the Seen-Device Set  *)
(* are unchanged.  Consequently a message the backend has published        *)
(* changes nothing when it is delivered back to the backend.               *)

\* the topic of an MQTT event has 4 segments exactly when its method is set
C21_Dropped(e) ==
    /\ e.path = "mqtt"
    /\ \/ ~Has(e.payload, "sender")
       \/ Get(e.payload, "sender") = "backend"
       \/ e.method = ""

C21_SameState(w) ==
    /\ w.devices_collection = devices_collection
    /\ w.metrics = metrics
    /\ w.device_on_intervals = device_on_intervals
    /\ w.seen_devices = seen_devices

C21_EchoChangesNothing ==
    \A i \in DOMAIN evt.pub :
        C21_SameState(on_message(World(0), evt.pub[i].topic, evt.pub[i].payload))

C21_DroppedMessageChangesNothing ==
    /\ [][C21_Dropped(evt') =>
             /\ devices_collection' = devices_collection
             /\ metrics' = metrics
             /\ device_on_intervals' = device_on_intervals
             /\ seen_devices' = seen_devices
         ]_vars
    /\ []C21_EchoChangesNothing

\* a message of the backend itself that asks for a change of a stored
\* device's room, and the room still as it was
C21_Witness ==
    /\ evt.path = "mqtt"
    /\ evt.method = "update"
    /\ Has(evt.payload, "sender")
    /\ Get(evt.payload, "sender") = "backend"
    /\ Has(evt.payload, "contents")
    /\ Has(Get(evt.payload, "contents"), "room")
    /\ Stored(evt.id) # None
    /\ Get(Stored(evt.id), "room") # Get(Get(evt.payload, "contents"), "room")

(* C22: a synchronous command (post, update, action, delete) that changes  *)
(* the persisted store publishes, within the same request, exactly one     *)
(* message {sender: "backend", contents: payload} to                      *)
(* project/home/<device_id>/<method>, with the device id and the method   *)
(* of the command; a rejected synchronous command publishes nothing; a     *)
(* command handled on the asynchronous path never publishes.  The payload  *)
(* of an update is taken as the handler applies it, without its id field.  *)

C22_Payload(e) ==
    IF e.method = "update" /\ Has(e.payload, "id") THEN Pop(e.payload, "id") ELSE e.payload

C22_Expected(e) ==
    << [topic |-> <<"project", "home", e.id, e.method>>,
        payload |-> << <<"sender", "backend">>, <<"contents", C22_Payload(e)>> >>] >>

C22_MutationPublishedOnce ==
    [][/\ (evt'.path = "http" /\ devices_collection' # devices_collection)
          => evt'.pub = C22_Expected(evt')
       /\ (evt'.path = "http" /\ evt'.resp # 200) => evt'.pub = <<>>
       /\ evt'.path = "mqtt" => evt'.pub = <<>>
      ]_vars

-----------------------------------------------------------------------------
(* The table scenario: a device of each type, and of an unknown type, and  *)
(* actions of one parameter each, over every parameter name of the tables  *)
(* and one that no table has                                                *)

ParameterNames == UNION {AllowedParameters(type) : type \in DeviceTypes} \cup {"volume"}

\* a value that the projection of the parameter accepts where it knows it
TableValue(key) ==
    CASE key \in {"is_heating", "timer_enabled", "is_dimmable", "dynamic_color",
                  "auto_lock_enabled"} -> VBool(TRUE)
      [] key \in {"scheduled_on", "scheduled_off"} -> VStr("06:00")
      [] key = "color" -> VStr("#0000ff")
      [] key = "mode" -> VStr("cool")
      [] key = "fan_speed" -> VStr("low")
      [] key = "swing" -> VStr("on")
      [] OTHER -> VNum(50)

TablePosts ==
    {Device(id, type, "r1", "off", <<>>) : id \in DeviceIds, type \in DeviceTypes \cup {"toaster"}}

TableActions == {<< <<key, TableValue(key)>> >> : key \in ParameterNames}

NextTables ==
    \/ HttpPost(TablePosts)
    \/ HttpAction(TableActions)

SpecTables == InitEmpty /\ [][NextTables]_vars

(* C23: for every one of the five device types and every parameter name,   *)
(* validate_action_parameters accepts the parameter for the type if and    *)
(* only if device_metrics_action does not fail with an unknown-parameter   *)
(* error for that type and parameter; both reject every type outside the   *)
(* five.                                                                    *)

\* the projection returned (False, reason); with a value it accepts, the
\* reason is an unknown parameter or an unknown type
C23_Unknown(device, key) ==
    LET w == device_metrics_action(World(0), device, key, TableValue(key))
    IN  ~w.raised /\ ~w.ret

C23_Accepts(device, key) ==
    validate_action_parameters(Get(device, "type"), << <<key, TableValue(key)>> >>)

C23_TablesAgree ==
    \A id \in DeviceIds :
        Stored(id) # None =>
            \A key \in ParameterNames :
                /\ C23_Accepts(Stored(id), key) <=> ~C23_Unknown(Stored(id), key)
                /\ Get(Stored(id), "type") \notin DeviceTypes
                   => ~C23_Accepts(Stored(id), key) /\ C23_Unknown(Stored(id), key)

\* a door lock was sent the curtain's parameter, and the action was rejected
C23_Witness ==
    /\ evt.method = "action"
    /\ evt.resp = 400
    /\ Has(evt.payload, "position")
    /\ Stored(evt.id) # None
    /\ Get(Stored(evt.id), "type") = "door_lock"

(* C24: in every reachable state, every device record of the persisted     *)
(* store has a type that is one of the five variants and a parameters      *)
(* mapping whose keys are all allowed for that type.                       *)

C24_StoredRecordsWellTyped ==
    \A id \in DeviceIds :
        Stored(id) # None =>
            /\ Get(Stored(id), "type") \in
                   {"water_heater", "light", "air_conditioner", "door_lock", "curtain"}
            /\ Keys(Get(Stored(id), "parameters")) \subseteq
                   AllowedParameters(Get(Stored(id), "type"))

-----------------------------------------------------------------------------
(* The domain scenario: a light, a door lock and a curtain, each created    *)
(* in its inactive state, and status updates on both ingress paths over     *)
(* the six known states and one unknown state                               *)

DomainPosts ==
    UNION {{Device(id, "light", "r1", "off", LightParams),
            Device(id, "door_lock", "r1", "unlocked", <<>>),
            Device(id, "curtain", "r1", "open", <<>>)} : id \in DeviceIds}

DomainUpdates == {<< <<"status", s>> >> : s \in KnownStates \cup {"dim"}}

NextDomains ==
    \/ Tick
    \/ HttpPost(DomainPosts)
    \/ HttpPut(DomainUpdates)
    \/ MqttReceive(Messages("update", {"simulator"}, DomainUpdates))

SpecDomains == InitEmpty /\ [][NextDomains]_vars

(* C25: an update that moves a device from its inactive value to its       *)
(* active value opens a new interval, for off -> on, for unlocked ->       *)
(* locked and for open -> closed alike; the reverse transition closes the  *)
(* interval and credits its duration to the usage counter.                 *)

C25_Inactive(status) ==
    CASE status = "on" -> "off"
      [] status = "locked" -> "unlocked"
      [] status = "closed" -> "open"
      [] OTHER -> ""

C25_Activates(e) ==
    /\ e.method = "update"
    /\ Processed(e)
    /\ Keys(Contents(e)) = {"status"}
    /\ Stored(e.id) # None
    /\ e.id \in seen_devices
    /\ Get(Stored(e.id), "status") = C25_Inactive(Get(Contents(e), "status"))

C25_Deactivates(e) ==
    /\ e.method = "update"
    /\ Processed(e)
    /\ Keys(Contents(e)) = {"status"}
    /\ Stored(e.id) # None
    /\ OpenIntervals(IntervalsOf(device_on_intervals, e.id)) # {}
    /\ C25_Inactive(Get(Stored(e.id), "status")) = Get(Contents(e), "status")

C25_AllDomainsOpenAndClose ==
    [][/\ C25_Activates(evt')
          => LET before == IntervalsOf(device_on_intervals, evt'.id)
                 after == IntervalsOf(device_on_intervals', evt'.id)
             IN  /\ Len(after) = Len(before) + 1
                 /\ Len(after[Len(after)]) = 1
       /\ C25_Deactivates(evt')
          => LET after == IntervalsOf(device_on_intervals', evt'.id)
                 last == after[Len(after)]
             IN  /\ OpenIntervals(after) = {}
                 /\ UsageSeconds(metrics', Stored(evt'.id))
                        >= UsageSeconds(metrics, Stored(evt'.id)) + (last[2] - last[1])
      ]_vars

(* C26: an update command whose status value is not one of on, off,        *)
(* locked, unlocked, open, closed is rejected: the ledger, every counter   *)
(* and every status gauge are unchanged, the persisted status of the       *)
(* device is unchanged, and on the synchronous path the answer is a        *)
(* failure.                                                                 *)

C26_UnknownStatus(e) ==
    /\ e.method = "update"
    /\ Processed(e)
    /\ Has(Contents(e), "status")
    /\ Get(Contents(e), "status") \notin {"on", "off", "locked", "unlocked", "open", "closed"}
    /\ Stored(e.id) # None

C26_UnknownStatusRejected ==
    [][C26_UnknownStatus(evt')
       => /\ device_on_intervals' = device_on_intervals
          /\ metrics' = metrics
          /\ Get(find_one(devices_collection', evt'.id), "status") = Get(Stored(evt'.id), "status")
          /\ evt'.path = "http" => evt'.resp # 200
      ]_vars

-----------------------------------------------------------------------------
(* The switch scenario: a light created on or off, or found in the store   *)
(* at start, read, switched and deleted over HTTP                           *)

NextSwitch ==
    \/ HttpPost(LedgerPosts)
    \/ HttpGetOne
    \/ HttpPut(LedgerUpdates)
    \/ HttpDelete

SpecSwitch == Init /\ [][NextSwitch]_vars

(* C27, as stated: a transition into "on" increments the device's on-event *)
(* counter only if the device id is already in the Seen-Device Set at the  *)
(* moment of the transition, and the very first "on" transition of a newly *)
(* created device is not counted as an on-event.                           *)

C27_OnEvents(m, id) == Value(m, <<"device_on_events_total", id, "light">>)

\* the step appends an interval to the ledger of id
C27_Opens(id) ==
    Len(IntervalsOf(device_on_intervals', id)) > Len(IntervalsOf(device_on_intervals, id))

C27_FirstOnNeverCounted ==
    [][\A id \in DeviceIds :
           /\ C27_OnEvents(metrics', id) > C27_OnEvents(metrics, id) => id \in seen_devices
           /\ (C27_Opens(id) /\ IntervalsOf(device_on_intervals, id) = <<>>)
              => C27_OnEvents(metrics', id) = C27_OnEvents(metrics, id)
      ]_vars

(* C27, amended: a transition into "on" increments the on-event counter,   *)
(* by one, exactly when the device id is in the Seen-Device Set at the     *)
(* moment of the transition: the transition made while a device created    *)
(* or first read with status "on" is bootstrapped is not counted, the      *)
(* first switch to "on" of a device created "off" is.                      *)

C27_CountedExactlyWhenSeen ==
    [][\A id \in DeviceIds :
           /\ C27_OnEvents(metrics', id) > C27_OnEvents(metrics, id)
              => id \in seen_devices /\ C27_Opens(id)
           /\ (C27_Opens(id) /\ id \notin seen_devices)
              => C27_OnEvents(metrics', id) = C27_OnEvents(metrics, id)
           /\ (C27_Opens(id) /\ id \in seen_devices)
              => C27_OnEvents(metrics', id) = C27_OnEvents(metrics, id) + 1
      ]_vars

\* a light created with status on: its bootstrap opened its first interval
\* and counted no on-event
C27_Witness ==
    /\ evt.method = "post"
    /\ evt.resp = 200
    /\ Get(evt.payload, "status") = "on"
    /\ IntervalsOf(device_on_intervals, evt.id) = << <<now>> >>
    /\ C27_OnEvents(metrics, evt.id) = 0
    /\ evt.id \in seen_devices

(* C28: get_device_on_interval_at_time(device_id, t) returns an interval   *)
(* of the device that covers t (start <= t, and the interval is open or    *)
(* t <= end), and returns none when no interval of the device covers t:    *)
(* never an open interval that started after t, and never none while a     *)
(* later interval covers t.                                                *)

C28_Covers(iv, t) == iv[1] <= t /\ (Len(iv) = 1 \/ t <= iv[2])

C28_ReturnsCoveringInterval ==
    \A id \in DeviceIds, t \in 0..MaxTime :
        LET ivs == IntervalsOf(device_on_intervals, id)
            found == get_device_on_interval_at_time(device_on_intervals, id, t)
        IN  IF \E i \in DOMAIN ivs : C28_Covers(ivs[i], t)
            THEN found # None /\ C28_Covers(found, t)
            ELSE found = None

(* C29: for every analytics window from < to and every ledger state, the   *)
(* duration added on top of a device's counter-derived usage is between 0  *)
(* and (to - from): the reported total_usage_minutes of the device is      *)
(* never lower than the counter-derived usage, also when to lies before    *)
(* the start of the device's open interval.                                *)

C29_Case(id) ==
    /\ C15_Window(evt)
    /\ C15_From(evt) < C15_To(evt)
    /\ evt.resp = 200
    /\ Stored(id) # None
    /\ Get(evt.payload, "usage") = ExactUsage(metrics, now)
    /\ Has(Get(evt.body, "on_devices"), id)

C29_ExtraWithinWindow ==
    \A id \in DeviceIds :
        C29_Case(id)
        => LET reported == Get(Get(Get(evt.body, "on_devices"), id), "total_usage_minutes")
               counted == Minutes(UsageSeconds(metrics, Stored(id)))
           IN  /\ reported[2] = counted[2]
               /\ reported[1] - counted[1] \in 0..(C15_To(evt) - C15_From(evt))

(* C30: in every reachable state, for every device id, the cumulative      *)
(* usage-seconds counter equals the sum of (end - start) over the closed   *)
(* intervals of the device in the ledger, and every closed interval has    *)
(* end >= start.  The duration credited at a close is taken from a clock   *)
(* read later than the one stored as the interval's end; the counter is    *)
(* allowed that much, at most MaxLag per closed interval, above the sum.   *)

RECURSIVE C30_ClosedSeconds(_)
C30_ClosedSeconds(ivs) ==
    IF ivs = <<>> THEN 0
    ELSE (IF Len(Head(ivs)) = 2 THEN Head(ivs)[2] - Head(ivs)[1] ELSE 0)
         + C30_ClosedSeconds(Tail(ivs))

C30_Closed(ivs) == {i \in DOMAIN ivs : Len(ivs[i]) = 2}

\* the devices of the ledger scenario are lights
C30_Counter(id) == Value(metrics, <<"device_usage_seconds_total", id, "light">>)

C30_CounterIsSumOfClosedIntervals ==
    \A id \in DeviceIds :
        LET ivs == IntervalsOf(device_on_intervals, id)
        IN  /\ C30_Counter(id) - C30_ClosedSeconds(ivs)
                   \in 0..(MaxLag * Cardinality(C30_Closed(ivs)))
            /\ \A i \in C30_Closed(ivs) : ivs[i][2] >= ivs[i][1]

(* C31: an HTTP DELETE for a device id that exists in the persisted store  *)
(* always removes the record and publishes the delete, whether or not the  *)
(* id is in the Seen-Device Set; the request never fails leaving the       *)
(* record in the store.                                                    *)

C31_DeleteAlwaysRemoves ==
    [][(/\ evt'.path = "http"
        /\ evt'.method = "delete"
        /\ Stored(evt'.id) # None)
       => /\ find_one(devices_collection', evt'.id) = None
          /\ evt'.resp = 200
          /\ evt'.pub = << [topic |-> <<"project", "home", evt'.id, "delete">>,
                            payload |-> << <<"sender", "backend">>, <<"contents", <<>> >> >>] >>
      ]_vars

====
